---- MODULE Spec2Model ----
(***************************************************************************)
(* Model of the relay session of crates/client/src/lan/game/game.rs:       *)
(* GameHandler::run, its frame handlers, the chat command interpreter and  *)
(* the detached reply tasks; and of the accept stream of                   *)
(* crates/net/src/listener.rs: Incoming::poll_accept and poll_next.        *)
(*                                                                         *)
(* Chat text is a sequence of one-character strings, so that trim_end,     *)
(* starts_with, slicing and u8 parsing are computed as the code computes   *)
(* them.  Only ASCII text is modelled (one character is one byte): the     *)
(* six ASCII characters trim_end strips are modelled, the non-ASCII        *)
(* White_Space ones cannot be written in a TLA+ string and are left out.   *)
(* TLA+ strings have no back-quote: the two list headers that quote a      *)
(* command in back-quotes are written with apostrophes.                    *)
(* Reply texts are TLA+ strings built the way format! builds them.         *)
(***************************************************************************)
EXTENDS Integers, Sequences, FiniteSets, TLC

(***************************************************************************)
(* Bounds of the model.                                                    *)
(***************************************************************************)
\* frames the environment delivers in all: those the local client sends and
\* those the node side puts on the w3gs channel
MaxFrames == 3
\* capacity of the bounded mpsc channel behind w3gs_tx / w3gs_rx
ChanCap == 2
\* connections and accept errors the operating system hands to the listener
MaxAccepts == 3
\* commands the local player types while the delivery of replies is examined
MaxCommands == 2

(***************************************************************************)
(* Packet type ids (flo_w3gs::packet), kept symbolic.                      *)
(***************************************************************************)
LeaveAckId == "LeaveAck"
ChatToHostId == "ChatToHost"
ChatFromHostId == "ChatFromHost"
OutgoingKeepAliveId == "OutgoingKeepAlive"
IncomingActionId == "IncomingAction"
OutgoingActionId == "OutgoingAction"
OtherId == "Other"

NoChat == [ok |-> FALSE, scoped |-> FALSE, from |-> 0, text |-> <<>>]

\* A packet: a type id and a payload.  Only chat payloads are ever decoded;
\* `ok` tells whether decode_simple succeeds on the payload.
Pkt(t) == [type |-> t, chat |-> NoChat]
ChatPkt(t, scoped, from, text) ==
  [type |-> t, chat |-> [ok |-> TRUE, scoped |-> scoped, from |-> from, text |-> text]]
BadChatPkt(t) == [type |-> t, chat |-> NoChat]

(***************************************************************************)
(* Text helpers: str::trim_end, str::starts_with, slicing, str::parse::<u8>*)
(***************************************************************************)
\* the six ASCII characters of White_Space; the one between "\n" and "\f" is
\* the vertical tab U+000B, which has no escape and stands in the string itself
IsWhitespace(c) == c \in {" ", "\t", "\n", "", "\f", "\r"}

RECURSIVE TrimEnd(_)
TrimEnd(s) ==
  IF s = <<>> THEN s
  ELSE IF IsWhitespace(s[Len(s)]) THEN TrimEnd(SubSeq(s, 1, Len(s) - 1))
  ELSE s

StartsWith(s, p) == Len(s) >= Len(p) /\ SubSeq(s, 1, Len(p)) = p

\* &s[n..] : the text after the first n characters
SliceFrom(s, n) == SubSeq(s, n + 1, Len(s))

Digits == {"0", "1", "2", "3", "4", "5", "6", "7", "8", "9"}
DigitVal(c) ==
  CASE c = "0" -> 0 [] c = "1" -> 1 [] c = "2" -> 2 [] c = "3" -> 3 [] c = "4" -> 4
    [] c = "5" -> 5 [] c = "6" -> 6 [] c = "7" -> 7 [] c = "8" -> 8 [] c = "9" -> 9

RECURSIVE DecimalValue(_)
DecimalValue(s) ==
  IF s = <<>> THEN 0
  ELSE 10 * DecimalValue(SubSeq(s, 1, Len(s) - 1)) + DigitVal(s[Len(s)])

U8Max == 255
ParseFail == -1

\* str::parse::<u8>().ok(): an optional "+", then one or more digits, value
\* at most 255; ParseFail stands for None.
ParseU8(s) ==
  LET body == IF s # <<>> /\ s[1] = "+" THEN SliceFrom(s, 1) ELSE s
  IN IF body = <<>> \/ \E i \in 1..Len(body) : body[i] \notin Digits THEN ParseFail
     ELSE IF Len(body) > 3 /\ \E i \in 1..(Len(body) - 3) : body[i] # "0"
          THEN ParseFail
     ELSE IF DecimalValue(body) > U8Max THEN ParseFail
     ELSE DecimalValue(body)

\* flo_util::chat::parse_chat_command: text that starts with the command
\* prefix "!" yields the text after the prefix; any other text is no command.
NoCommand == <<"\\none">>
parse_chat_command(message) ==
  IF message # <<>> /\ message[1] = "!" THEN SliceFrom(message, 1) ELSE NoCommand

(***************************************************************************)
(* Session data: LanGameInfo (roster, local slot id, match) and NodeInfo.  *)
(***************************************************************************)
PlayerInfo(id, name) == [slot_player_id |-> id, name |-> name]
Slot(player, team, race) == [player |-> player, team |-> team, race |-> race]
NoPlayerName == ""

\* A 1v1 match and a three-player match; the local player holds slot id 1.
Info2 ==
  [slot_player_id |-> 1,
   player_infos |-> <<PlayerInfo(1, "P1"), PlayerInfo(2, "P2")>>,
   game |-> [name |-> "G", game_id |-> 5,
             slots |-> <<Slot("P1", 0, "Human"), Slot("P2", 1, "Orc")>>]]
Info3 ==
  [slot_player_id |-> 1,
   player_infos |-> <<PlayerInfo(1, "P1"), PlayerInfo(2, "P2"), PlayerInfo(3, "P3")>>,
   game |-> [name |-> "G", game_id |-> 5,
             slots |-> <<Slot("P1", 0, "Human"), Slot(NoPlayerName, 0, "Random"),
                         Slot("P2", 1, "Orc"), Slot("P3", 1, "Undead")>>]]
Infos == {Info2, Info3}

NodeInfo == [name |-> "N", location |-> "L", country_id |-> "C", id |-> 9]

RosterIds(inf) == {inf.player_infos[i].slot_player_id : i \in 1..Len(inf.player_infos)}

\* BTreeSet iteration: ascending order
RECURSIVE SortedSeq(_)
SortedSeq(S) ==
  IF S = {} THEN <<>>
  ELSE LET m == CHOOSE x \in S : \A y \in S : x <= y
       IN <<m>> \o SortedSeq(S \ {m})

\* player_infos.iter().find(|info| info.slot_player_id == id): the matching
\* entries in roster order (empty when there is none; the first is the find).
FindPlayer(inf, id) ==
  SelectSeq(inf.player_infos, LAMBDA p : p.slot_player_id = id)

(***************************************************************************)
(* handle_chat_command: the reply texts and the new mute set.              *)
(***************************************************************************)
CmdResult(muted, messages) == [muted_players |-> muted, messages |-> messages]

IdLine(t) == " ID=" \o ToString(t.slot_player_id) \o " " \o t.name
IdLines(targets) == [i \in 1..Len(targets) |-> IdLine(targets[i])]

HelpMessages ==
  << "Chat commands:",
     " !flo: print game information.",
     " !muteall: Mute all players.",
     " !unmuteall: Mute all players.",
     " !mute: Mute your opponent (1v1), or display a player list.",
     " !mute <ID>: Mute a player.",
     " !unmute: Unmute your opponent (1v1), or display a player list.",
     " !unmute <ID>: Unmute a player." >>

FloMessages(inf) ==
  LET occupied == SelectSeq(inf.game.slots, LAMBDA s : s.player # NoPlayerName)
  IN << "Game: " \o inf.game.name \o " (#" \o ToString(inf.game.game_id) \o ")",
        "Server: " \o NodeInfo.name \o ", " \o NodeInfo.location \o ", "
           \o NodeInfo.country_id \o " (#" \o ToString(NodeInfo.id) \o ")",
        "Players:" >>
     \o [i \in 1..Len(occupied) |->
           "  " \o occupied[i].player \o ": Team " \o ToString(occupied[i].team)
              \o ", " \o occupied[i].race]

TickMessage(tr, ta) ==
  "tick_recv = " \o ToString(tr) \o ", tick_ack = " \o ToString(ta)

\* muteall that flips the other players instead of adding them
cmd_muteall_toggles(inf, muted) ==
  CmdResult((RosterIds(inf) \ {inf.slot_player_id}) \ muted, <<"All players muted.">>)

\* "muteall": every roster id but the local player's joins the mute set
cmd_muteall(inf, muted) ==
  CmdResult(muted \cup (RosterIds(inf) \ {inf.slot_player_id}),
            <<"All players muted.">>)

\* "unmuteall": the mute set is cleared
cmd_unmuteall(inf, muted) == CmdResult({}, <<"All players un-muted.">>)

\* mute targets that forget the mute set: every other player is a target
mute_targets_ignores_muted(inf, muted) ==
  SelectSeq(inf.player_infos, LAMBDA p : p.slot_player_id # inf.slot_player_id)

\* targets of the mute arm: roster entries of other players not yet muted
mute_targets(inf, muted) ==
  SelectSeq(inf.player_infos,
            LAMBDA p : p.slot_player_id # inf.slot_player_id
                       /\ p.slot_player_id \notin muted)

\* the arm `cmd if cmd.starts_with("mute")`
cmd_mute(cmd, inf, muted) ==
  LET targets == mute_targets(inf, muted)
      m5 == <<"m", "u", "t", "e", " ">>
  IN IF TrimEnd(cmd) = <<"m", "u", "t", "e">>
     THEN CASE Len(targets) = 0 ->
                 CmdResult(muted, <<"You have silenced all the players.">>)
            [] Len(targets) = 1 ->
                 CmdResult(muted \cup {targets[1].slot_player_id},
                           <<"Muted: " \o targets[1].name>>)
            [] OTHER ->
                 CmdResult(muted,
                           <<"Type '!mute <ID>' to mute a player:">> \o IdLines(targets))
     ELSE LET id == ParseU8(SliceFrom(cmd, Len(m5)))
          IN IF id # ParseFail
             THEN IF FindPlayer(inf, id) # <<>>
                  THEN CmdResult(muted \cup {id},
                                 <<"Muted: " \o FindPlayer(inf, id)[1].name>>)
                  ELSE CmdResult(muted,
                                 <<"Invalid player id. Players:">> \o IdLines(targets))
             ELSE CmdResult(muted, <<"Invalid syntax. Example: !mute 1">>)

\* targets of the unmute arm: muted ids, ascending, other than the local
\* player's, that the roster knows
unmute_targets(inf, muted) ==
  LET ids == SelectSeq(SortedSeq(muted),
                       LAMBDA id : id # inf.slot_player_id /\ FindPlayer(inf, id) # <<>>)
  IN [i \in 1..Len(ids) |-> FindPlayer(inf, ids[i])[1]]

\* the arm `cmd if cmd.starts_with("unmute")`
cmd_unmute(cmd, inf, muted) ==
  LET targets == unmute_targets(inf, muted)
      u7 == <<"u", "n", "m", "u", "t", "e", " ">>
  IN IF TrimEnd(cmd) = <<"u", "n", "m", "u", "t", "e">>
     THEN CASE Len(targets) = 0 ->
                 CmdResult(muted, <<"No player to unmute.">>)
            [] Len(targets) = 1 ->
                 CmdResult(muted \ {targets[1].slot_player_id},
                           <<"Un-muted: " \o targets[1].name>>)
            [] OTHER ->
                 CmdResult(muted,
                           <<"Type '!unmute <ID>' to unmute a player:">>
                             \o IdLines(targets))
     ELSE LET id == ParseU8(SliceFrom(cmd, Len(u7)))
              hit == SelectSeq(targets, LAMBDA t : t.slot_player_id = id)
          IN IF id # ParseFail
             THEN IF hit # <<>>
                  THEN CmdResult(muted \ {id}, <<"Un-muted: " \o hit[1].name>>)
                  ELSE CmdResult(muted,
                                 <<"Invalid player id. Muted players:">>
                                   \o IdLines(targets))
             ELSE CmdResult(muted, <<"Invalid syntax. Example: !unmute 1">>)

\* the fallback arm
cmd_unknown(muted) == CmdResult(muted, <<"Unknown command">>)

\* match cmd.trim_end() { ... }: arms are tried in source order
handle_chat_command(cmd0, inf, muted, tr, ta) ==
  LET cmd == TrimEnd(cmd0)
  IN CASE cmd = <<"h", "e", "l", "p">> -> CmdResult(muted, HelpMessages)
       [] cmd = <<"f", "l", "o">> -> CmdResult(muted, FloMessages(inf))
       [] cmd = <<"t", "i", "c", "k">> -> CmdResult(muted, <<TickMessage(tr, ta)>>)
       [] cmd = <<"m", "u", "t", "e", "a", "l", "l">> -> cmd_muteall(inf, muted)
       [] cmd = <<"u", "n", "m", "u", "t", "e", "a", "l", "l">> ->
            cmd_unmuteall(inf, muted)
       [] OTHER ->
            IF StartsWith(cmd, <<"m", "u", "t", "e">>) THEN cmd_mute(cmd, inf, muted)
            ELSE IF StartsWith(cmd, <<"u", "n", "m", "u", "t", "e">>)
                 THEN cmd_unmute(cmd, inf, muted)
            ELSE cmd_unknown(muted)

(***************************************************************************)
(* Inputs: the frames the local client and the node side may deliver.      *)
(***************************************************************************)
\* scoped chat texts typed by the local player
ClientTexts ==
  { <<"h", "e", "l", "l", "o">>,
    <<"!", "h", "e", "l", "p">>,
    <<"!", "f", "l", "o">>,
    <<"!", "t", "i", "c", "k">>,
    <<"!", "m", "u", "t", "e", "a", "l", "l">>,
    <<"!", "u", "n", "m", "u", "t", "e", "a", "l", "l">>,
    <<"!", "m", "u", "t", "e">>,
    <<"!", "m", "u", "t", "e", " ">>,
    <<"!", "m", "u", "t", "e", " ", "2">>,
    <<"!", "m", "u", "t", "e", " ", "3">>,
    <<"!", "m", "u", "t", "e", " ", "1">>,
    <<"!", "m", "u", "t", "e", " ", "9">>,
    <<"!", "m", "u", "t", "e", " ", "x">>,
    <<"!", "m", "u", "t", "e", "x">>,
    <<"!", "m", "u", "t", "e", "x", "2">>,
    <<"!", "u", "n", "m", "u", "t", "e">>,
    <<"!", "u", "n", "m", "u", "t", "e", " ", "2">>,
    <<"!", "u", "n", "m", "u", "t", "e", " ", "1">>,
    <<"!", "u", "n", "m", "u", "t", "e", " ", "3">>,
    <<"!", "u", "n", "m", "u", "t", "e", " ", "9">>,
    <<"!", "u", "n", "m", "u", "t", "e", " ", "x">>,
    <<"!", "u", "n", "m", "u", "t", "e", "x">>,
    <<"!", "f", "o", "o">>,
    <<"!", "H", "e", "l", "p">>,
    <<"!", "h", "e", "l", "p", "\f">> }

\* chat frames carrying each of the texts above as scoped chat
CommandPkts == {ChatPkt(ChatToHostId, TRUE, 1, t) : t \in ClientTexts}

\* frames other than LeaveAck read from the local-client transport while
\* relaying: every frame type, undecodable chat, non-scoped chat, scoped chat
\* that is no command and a few commands
RelayTexts ==
  { <<"h", "e", "l", "l", "o">>,
    <<"!", "m", "u", "t", "e", "a", "l", "l">>,
    <<"!", "u", "n", "m", "u", "t", "e", "a", "l", "l">>,
    <<"!", "m", "u", "t", "e", " ", "2">> }
ClientPkts ==
  {Pkt(OutgoingKeepAliveId), Pkt(IncomingActionId), Pkt(OutgoingActionId), Pkt(OtherId),
   BadChatPkt(ChatToHostId),
   ChatPkt(ChatToHostId, FALSE, 1, <<"!", "m", "u", "t", "e", "a", "l", "l">>)}
  \cup {ChatPkt(ChatToHostId, TRUE, 1, t) : t \in RelayTexts}

\* frames the node side puts on the w3gs channel
NodePkts ==
  {Pkt(OutgoingKeepAliveId), Pkt(IncomingActionId), Pkt(OtherId),
   BadChatPkt(ChatFromHostId)}
  \cup {ChatPkt(ChatFromHostId, TRUE, p, <<"h", "i">>) : p \in {2, 3}}
  \cup {ChatPkt(ChatFromHostId, FALSE, 2, <<"h", "i">>)}

\* values the status watch channel may hold (Option<NodeGameStatus>)
StatusValues == {"None", "Running"}

(***************************************************************************)
(* Handlers, as functions from the session state, the frame and the        *)
(* outcome of the I/O they perform to their effect.                        *)
(***************************************************************************)
RetOk == "Ok"
\* Error::TaskCancelled, the variant run() itself builds when a channel closes
TaskCancelled == "Err(TaskCancelled)"
\* What a call into code outside these files hands back through `?`: the
\* crate's Error.  Which variant is not decided in these files: TaskCancelled,
\* or any other one, written `err` after the call it comes from.
Failures(err) == {err, TaskCancelled}
Outcomes(err) == {RetOk} \cup Failures(err)
\* the errors decode_simple may return on pkt: none that matters when the
\* payload decodes
DecodeFailures(pkt) ==
  IF pkt.chat.ok THEN {"Err(Decode)"} ELSE Failures("Err(Decode)")
\* the handler has reached an await that has not completed: run() is suspended
RetAwait == "Await"
\* a completed I/O call and its outcome
SendOp(pkt, ok) == [op |-> "send", pkt |-> pkt, ok |-> ok, done |-> TRUE]
FlushOp(ok) == [op |-> "flush", pkt |-> Pkt("None"), ok |-> ok, done |-> TRUE]
ReportOp(status, ok) ==
  [op |-> "report_slot_status", status |-> status, ok |-> ok, done |-> TRUE]
SendW3gsOp(pkt, ok) == [op |-> "send_w3gs", pkt |-> pkt, ok |-> ok, done |-> TRUE]
\* an I/O call that has been made and has not completed
BegunOp(name, pkt) == [op |-> name, pkt |-> pkt, ok |-> FALSE, done |-> FALSE]

\* ChatFromHost::private_to_self(player_id, message): scoped chat whose
\* sender and only recipient is player_id
private_to_self(player_id, message) ==
  [type |-> ChatFromHostId,
   chat |-> [ok |-> TRUE, scoped |-> TRUE, from |-> player_id, text |-> message]]

\* the LeaveAck arm of run() up to its second await: the report has completed
\* (its outcome is discarded), then Packet::simple(LeaveAck)? encodes the echo
leave_report(report_ok, encode_res) ==
  [node_ops |-> <<ReportOp("Left", report_ok)>>, ret |-> encode_res]

\* w3gs_stream.send(echo).await?
leave_send(send_res) ==
  [w3gs_ops |-> <<SendOp(Pkt(LeaveAckId), send_res = RetOk)>>, ret |-> send_res]

\* a flush whose outcome is discarded as the outcome of the report is
leave_flush_ignores_error(flush_res) ==
  [w3gs_ops |-> <<FlushOp(flush_res = RetOk)>>, ret |-> "Ok(Leave)"]

\* w3gs_stream.flush().await?; return Ok(GameResult::Leave)
leave_flush(flush_res) ==
  [w3gs_ops |-> <<FlushOp(flush_res = RetOk)>>,
   ret |-> IF flush_res = RetOk THEN "Ok(Leave)" ELSE flush_res]

\* handle_incoming_w3gs that decodes every ChatFromHost frame, muted or not
handle_incoming_w3gs_always_decodes(muted, tr, pkt, decode_err) ==
  LET decode == pkt.type = ChatFromHostId
      tr2 == IF pkt.type = IncomingActionId THEN tr + 1 ELSE tr
  IN IF decode /\ ~pkt.chat.ok
     THEN [tick_recv |-> tr2, decoded |-> TRUE, w3gs_ops |-> <<>>, ret |-> decode_err]
     ELSE IF decode /\ pkt.chat.scoped /\ pkt.chat.from \in muted
     THEN [tick_recv |-> tr2, decoded |-> TRUE, w3gs_ops |-> <<>>, ret |-> RetOk]
     ELSE [tick_recv |-> tr2, decoded |-> decode,
           w3gs_ops |-> <<BegunOp("send", pkt)>>, ret |-> RetAwait]

\* handle_incoming_w3gs up to `self.w3gs_stream.send(pkt).await`: a frame taken
\* from w3gs_rx is counted, filtered, and its write to the local client begun
handle_incoming_w3gs(muted, tr, pkt, decode_err) ==
  LET decode == pkt.type = ChatFromHostId /\ muted # {}
      tr2 == IF pkt.type = IncomingActionId THEN tr + 1 ELSE tr
  IN IF decode /\ ~pkt.chat.ok
     THEN [tick_recv |-> tr2, decoded |-> TRUE, w3gs_ops |-> <<>>, ret |-> decode_err]
     ELSE IF decode /\ pkt.chat.scoped /\ pkt.chat.from \in muted
     THEN [tick_recv |-> tr2, decoded |-> TRUE, w3gs_ops |-> <<>>, ret |-> RetOk]
     ELSE [tick_recv |-> tr2, decoded |-> decode,
           w3gs_ops |-> <<BegunOp("send", pkt)>>, ret |-> RetAwait]

\* the completion of `self.w3gs_stream.send(pkt).await?`
w3gs_stream_send(pkt, send_res) ==
  [w3gs_ops |-> <<SendOp(pkt, send_res = RetOk)>>, ret |-> send_res]

\* the tail of handle_game_packet: node_stream.send_w3gs(pkt) is begun
forward_to_node(muted, ta, pkt) ==
  [tick_ack |-> ta, muted_players |-> muted, messages |-> <<>>, command |-> FALSE,
   decoded |-> pkt.type = ChatToHostId,
   node_ops |-> <<BegunOp("send_w3gs", pkt)>>, ret |-> RetAwait]

\* the completion of `self.node_stream.send_w3gs(pkt).await?`
node_stream_send_w3gs(pkt, node_res) ==
  [node_ops |-> <<SendW3gsOp(pkt, node_res = RetOk)>>, ret |-> node_res]

\* handle_game_packet counting OutgoingAction frames as acknowledgements too
handle_game_packet_counts_actions(inf, muted, tr, ta, pkt, decode_err) ==
  IF pkt.type = ChatToHostId
  THEN IF ~pkt.chat.ok
       THEN [tick_ack |-> ta, muted_players |-> muted, messages |-> <<>>,
             command |-> FALSE, decoded |-> TRUE, node_ops |-> <<>>,
             ret |-> decode_err]
       ELSE IF pkt.chat.scoped /\ parse_chat_command(pkt.chat.text) # NoCommand
       THEN LET r == handle_chat_command(parse_chat_command(pkt.chat.text),
                                         inf, muted, tr, ta)
            IN [tick_ack |-> ta, muted_players |-> r.muted_players,
                messages |-> r.messages, command |-> TRUE, decoded |-> TRUE,
                node_ops |-> <<>>, ret |-> RetOk]
       ELSE forward_to_node(muted, ta, pkt)
  ELSE IF pkt.type \in {OutgoingKeepAliveId, OutgoingActionId}
       THEN forward_to_node(muted, ta + 1, pkt)
       ELSE forward_to_node(muted, ta, pkt)

\* handle_game_packet without the `return Ok(())` after a command: the command
\* is executed and the frame falls through to node_stream.send_w3gs
handle_game_packet_falls_through(inf, muted, tr, ta, pkt, decode_err) ==
  IF pkt.type = ChatToHostId
  THEN IF ~pkt.chat.ok
       THEN [tick_ack |-> ta, muted_players |-> muted, messages |-> <<>>,
             command |-> FALSE, decoded |-> TRUE, node_ops |-> <<>>,
             ret |-> decode_err]
       ELSE IF pkt.chat.scoped /\ parse_chat_command(pkt.chat.text) # NoCommand
       THEN LET r == handle_chat_command(parse_chat_command(pkt.chat.text),
                                         inf, muted, tr, ta)
            IN [tick_ack |-> ta, muted_players |-> r.muted_players,
                messages |-> r.messages, command |-> TRUE, decoded |-> TRUE,
                node_ops |-> <<BegunOp("send_w3gs", pkt)>>, ret |-> RetAwait]
       ELSE forward_to_node(muted, ta, pkt)
  ELSE IF pkt.type = OutgoingKeepAliveId
       THEN forward_to_node(muted, ta + 1, pkt)
       ELSE forward_to_node(muted, ta, pkt)

\* handle_game_packet up to `self.node_stream.send_w3gs(pkt).await`: a frame
\* other than LeaveAck read from the local client
handle_game_packet(inf, muted, tr, ta, pkt, decode_err) ==
  IF pkt.type = ChatToHostId
  THEN IF ~pkt.chat.ok
       THEN [tick_ack |-> ta, muted_players |-> muted, messages |-> <<>>,
             command |-> FALSE, decoded |-> TRUE, node_ops |-> <<>>,
             ret |-> decode_err]
       ELSE IF pkt.chat.scoped /\ parse_chat_command(pkt.chat.text) # NoCommand
       THEN LET r == handle_chat_command(parse_chat_command(pkt.chat.text),
                                         inf, muted, tr, ta)
            IN [tick_ack |-> ta, muted_players |-> r.muted_players,
                messages |-> r.messages, command |-> TRUE, decoded |-> TRUE,
                node_ops |-> <<>>, ret |-> RetOk]
       ELSE forward_to_node(muted, ta, pkt)
  ELSE IF pkt.type = OutgoingKeepAliveId
       THEN forward_to_node(muted, ta + 1, pkt)
       ELSE forward_to_node(muted, ta, pkt)

(***************************************************************************)
(* The connection listener: what TcpListener::poll_accept is handed by the *)
(* operating system, and Incoming::poll_accept / poll_next on top of it.   *)
(***************************************************************************)
PeerAddrs == {"10.0.0.1:1", "10.0.0.2:2"}

\* an entry of the listening socket's queue: a connection (with the outcome the
\* two socket options will have on it) or an accept error
Connection(addr, nodelay_ok, keepalive_ok) ==
  [kind |-> "conn", peer_addr |-> addr, nodelay_ok |-> nodelay_ok,
   keepalive_ok |-> keepalive_ok]
AcceptError ==
  [kind |-> "err", peer_addr |-> "", nodelay_ok |-> FALSE, keepalive_ok |-> FALSE]
AcceptEvents ==
  {Connection(a, n, k) : a \in PeerAddrs, n \in BOOLEAN, k \in BOOLEAN}
    \cup {AcceptError}

\* FloStream { peer_addr, transport: Framed::new(socket, FloFrameCodec::new()) }
\* with the state of the socket options: TCP_NODELAY is on when set_nodelay
\* succeeded, SO_KEEPALIVE stays off whether set_keepalive(None) succeeds or not
FloStream(addr, nodelay_ok, keepalive_ok) ==
  [peer_addr |-> addr, nodelay |-> nodelay_ok, keepalive |-> FALSE,
   codec |-> "FloFrameCodec"]
NoStream == [peer_addr |-> "", nodelay |-> FALSE, keepalive |-> FALSE, codec |-> ""]

\* self.inner.poll_accept(cx): Pending on an empty queue, else its oldest entry
inner_poll_accept(queue) ==
  IF queue = <<>> THEN [poll |-> "Pending", res |-> "", entry |-> AcceptError]
  ELSE [poll |-> "Ready", res |-> IF Head(queue).kind = "err" THEN "Err" ELSE "Ok",
        entry |-> Head(queue)]

\* Incoming::poll_accept: Poll<Result<FloStream>>
poll_accept(queue) ==
  LET r == inner_poll_accept(queue)
  IN IF r.poll = "Pending" THEN [poll |-> "Pending", res |-> "", stream |-> NoStream]
     ELSE IF r.res = "Err" THEN [poll |-> "Ready", res |-> "Err", stream |-> NoStream]
     ELSE [poll |-> "Ready", res |-> "Ok",
           stream |-> FloStream(r.entry.peer_addr, r.entry.nodelay_ok,
                                r.entry.keepalive_ok)]

\* poll_next of a stream that ends at the first accept error
poll_next_ends_on_error(queue) ==
  LET r == poll_accept(queue)
  IN IF r.poll = "Pending" THEN [poll |-> "Pending", item |-> "", stream |-> NoStream]
     ELSE IF r.res = "Err" THEN [poll |-> "Ready", item |-> "None", stream |-> NoStream]
     ELSE [poll |-> "Ready", item |-> "Some(Ok)", stream |-> r.stream]

\* <Incoming as Stream>::poll_next: Poll<Option<Result<FloStream>>>
poll_next(queue) ==
  LET r == poll_accept(queue)
  IN IF r.poll = "Pending" THEN [poll |-> "Pending", item |-> "", stream |-> NoStream]
     ELSE IF r.res = "Err"
     THEN [poll |-> "Ready", item |-> "Some(Err)", stream |-> NoStream]
     ELSE [poll |-> "Ready", item |-> "Some(Ok)", stream |-> r.stream]

(***************************************************************************)
(* State.                                                                  *)
(***************************************************************************)
VARIABLES
  info,            \* the LanGameInfo the session was built with (never changes)
  pc,              \* "running" while run() waits in select!, "leave_report",
                   \* "leave_send", "leave_flush" while the LeaveAck arm awaits
                   \* that call, "send_w3gs" while handle_game_packet awaits
                   \* node_stream.send_w3gs, "send" while handle_incoming_w3gs
                   \* awaits w3gs_stream.send, "done" once run() has returned
  result,          \* what run() returned, "none" while it runs
  tick_recv,       \* GameHandler.tick_recv
  tick_ack,        \* GameHandler.tick_ack
  muted_players,   \* GameHandler.muted_players
  w3gs_chan,       \* frames queued between w3gs_tx and w3gs_rx, oldest first
  tasks,           \* unfinished detached tasks of send_chats_to_self
  senders,         \* who holds a live Sender of the channel behind w3gs_rx
  last,            \* history: the latest iteration of run(): source, frame, I/O
  n_client_in,     \* history: frames read from the local client
  n_node_in,       \* history: frames the node side put on the channel
  n_keepalive_in,  \* history: OutgoingKeepAlive frames read from the local client
  n_action_in,     \* history: IncomingAction frames taken from the channel
  fwd_to_node,     \* history: arrival numbers of client frames sent to the node
  fwd_to_client,   \* history: arrival numbers of node frames written to the client
  reply_log,       \* history: tags of the private replies written to the client
  accept_queue,    \* the listening socket's queue: connections and accept errors
  poll_result,     \* the latest call of poll_next or poll_accept and what it returned
  yielded,         \* history: the items poll_next has yielded
  n_accepts        \* history: entries the operating system has queued

\* the listener's part of the state and the session's part
listener_vars == <<accept_queue, poll_result, yielded, n_accepts>>
session_vars ==
  <<info, pc, result, tick_recv, tick_ack, muted_players, w3gs_chan, tasks, senders,
    last, n_client_in, n_node_in, n_keepalive_in, n_action_in, fwd_to_node, fwd_to_client,
    reply_log>>

vars == <<session_vars, listener_vars>>

NoPkt == Pkt("None")
NodeTag(i) == [origin |-> "node", idx |-> i, msg |-> 0]
ReplyTag(i, j) == [origin |-> "reply", idx |-> i, msg |-> j]
NoTag == [origin |-> "none", idx |-> 0, msg |-> 0]

\* the record of an iteration; `muted` is the mute set the iteration started
\* with, `decoded` tells whether it called decode_simple on the frame
Last(src, event, pkt, tag, w3gs_ops, node_ops, messages) ==
  [src |-> src, event |-> event, pkt |-> pkt, tag |-> tag, w3gs_ops |-> w3gs_ops,
   node_ops |-> node_ops, messages |-> messages, muted |-> muted_players,
   decoded |-> FALSE]

\* GameHandler::new, before run() has polled anything.  `wiring` tells who
\* holds a Sender of the channel behind w3gs_rx: the caller chooses whether the
\* w3gs_tx it hands to new() belongs to that channel.
InitWith(wiring) ==
  /\ info \in Infos
  /\ pc = "running"
  /\ result = "none"
  /\ tick_recv = 0
  /\ tick_ack = 0
  /\ muted_players = {}
  /\ w3gs_chan = <<>>
  /\ tasks = <<>>
  /\ senders = wiring
  /\ last = Last("none", "none", NoPkt, NoTag, <<>>, <<>>, <<>>)
  /\ n_client_in = 0
  /\ n_node_in = 0
  /\ n_keepalive_in = 0
  /\ n_action_in = 0
  /\ fwd_to_node = <<>>
  /\ fwd_to_client = <<>>
  /\ reply_log = <<>>
  /\ accept_queue = <<>>
  /\ poll_result = [call |-> "none", ret |-> [poll |-> "none"]]
  /\ yielded = <<>>
  /\ n_accepts = 0

\* w3gs_tx and w3gs_rx are the two ends of one channel: the replies of
\* send_chats_to_self come back through w3gs_rx
SharedWiring == {"node", "handler"}
\* w3gs_tx belongs to another channel: only the node side feeds w3gs_rx
SplitWiring == {"node"}

Init == InitWith(SharedWiring)
InitSplit == InitWith(SplitWiring)

\* run() returns `ret`
Return(ret) == pc' = "done" /\ result' = ret

\* `handler(...).await?` : an Err leaves run(), Ok goes round the loop, and a
\* handler suspended at an await leaves run() suspended there
Propagate(ret, await_pc) ==
  CASE ret = RetOk -> pc' = "running" /\ UNCHANGED result
    [] ret = RetAwait -> pc' = await_pc /\ UNCHANGED result
    [] OTHER -> Return(ret)

\* send_chats_to_self that spawns one detached task per message
send_chats_to_self_task_per_message(ts, cmd_no, player_id, messages) ==
  ts \o [j \in 1..Len(messages) |->
           [cmd |-> cmd_no, player_id |-> player_id, messages |-> <<messages[j]>>,
            sent |-> j - 1]]

\* send_chats_to_self: one detached task per call
send_chats_to_self(ts, cmd_no, player_id, messages) ==
  Append(ts, [cmd |-> cmd_no, player_id |-> player_id, messages |-> messages, sent |-> 0])

\* the arrival numbers to append to a forwarding history
Forwarded(ops, idx) ==
  IF \E i \in 1..Len(ops) :
       ops[i].op \in {"send", "send_w3gs"} /\ ops[i].done /\ ops[i].ok
  THEN <<idx>> ELSE <<>>

(***************************************************************************)
(* run(): the select! arm of w3gs_stream.recv()                            *)
(***************************************************************************)
\* recv() is Err: log, Ok(Disconnected)
RunClientError ==
  /\ pc = "running"
  /\ Return("Ok(Disconnected)")
  /\ last' = Last("w3gs_stream", "err", NoPkt, NoTag, <<>>, <<>>, <<>>)
  /\ UNCHANGED <<listener_vars, reply_log, info, senders, tick_recv, tick_ack, muted_players, w3gs_chan, tasks,
                 n_client_in, n_node_in, n_keepalive_in, n_action_in, fwd_to_node,
                 fwd_to_client>>

\* recv() is Ok(None): the stream closed, Ok(Disconnected)
RunClientClosed ==
  /\ pc = "running"
  /\ Return("Ok(Disconnected)")
  /\ last' = Last("w3gs_stream", "closed", NoPkt, NoTag, <<>>, <<>>, <<>>)
  /\ UNCHANGED <<listener_vars, reply_log, info, senders, tick_recv, tick_ack, muted_players, w3gs_chan, tasks,
                 n_client_in, n_node_in, n_keepalive_in, n_action_in, fwd_to_node,
                 fwd_to_client>>

\* recv() is a LeaveAck frame: report_slot_status(Left) is called and awaited
RunClientLeaveAck ==
  /\ pc = "running"
  /\ n_client_in + n_node_in < MaxFrames
  /\ pc' = "leave_report"
  /\ last' = Last("w3gs_stream", "pkt", Pkt(LeaveAckId), NoTag, <<>>, <<>>, <<>>)
  /\ n_client_in' = n_client_in + 1
  /\ UNCHANGED <<listener_vars, reply_log, info, senders, result, tick_recv, tick_ack,
                 muted_players, w3gs_chan, tasks, n_node_in, n_keepalive_in,
                 n_action_in, fwd_to_node, fwd_to_client>>

\* the LeaveAck arm goes on to its next await, or run() returns `ret`
LeaveGoesOn(ret, next_pc) ==
  IF ret = RetOk THEN pc' = next_pc /\ UNCHANGED result ELSE Return(ret)

\* the report completes; the echo is encoded and its send is awaited
LeaveReport ==
  /\ pc = "leave_report"
  /\ \E report_ok \in BOOLEAN, encode_res \in Outcomes("Err(Encode)") :
       LET out == leave_report(report_ok, encode_res)
       IN /\ LeaveGoesOn(out.ret, "leave_send")
          /\ last' = [last EXCEPT !.node_ops = @ \o out.node_ops]
  /\ UNCHANGED <<listener_vars, reply_log, info, senders, tick_recv, tick_ack,
                 muted_players, w3gs_chan, tasks, n_client_in, n_node_in,
                 n_keepalive_in, n_action_in, fwd_to_node, fwd_to_client>>

\* the send of the echo completes; the flush is awaited
LeaveSend ==
  /\ pc = "leave_send"
  /\ \E send_res \in Outcomes("Err(W3gsSend)") :
       LET out == leave_send(send_res)
       IN /\ LeaveGoesOn(out.ret, "leave_flush")
          /\ last' = [last EXCEPT !.w3gs_ops = @ \o out.w3gs_ops]
  /\ UNCHANGED <<listener_vars, reply_log, info, senders, tick_recv, tick_ack,
                 muted_players, w3gs_chan, tasks, n_client_in, n_node_in,
                 n_keepalive_in, n_action_in, fwd_to_node, fwd_to_client>>

\* the flush completes and run() returns
LeaveFlush ==
  /\ pc = "leave_flush"
  /\ \E flush_res \in Outcomes("Err(W3gsFlush)") :
       LET out == leave_flush(flush_res)
       IN /\ Return(out.ret)
          /\ last' = [last EXCEPT !.w3gs_ops = @ \o out.w3gs_ops]
  /\ UNCHANGED <<listener_vars, reply_log, info, senders, tick_recv, tick_ack,
                 muted_players, w3gs_chan, tasks, n_client_in, n_node_in,
                 n_keepalive_in, n_action_in, fwd_to_node, fwd_to_client>>

\* recv() is any other frame: handle_game_packet runs up to its await of
\* send_w3gs, or to its return when it has nothing to send
ClientPktFrom(pkts) ==
  /\ pc = "running"
  /\ n_client_in + n_node_in < MaxFrames
  /\ \E pkt \in pkts :
     \E decode_err \in DecodeFailures(pkt) :
       LET out == handle_game_packet(info, muted_players, tick_recv, tick_ack, pkt,
                                     decode_err)
       IN /\ tick_ack' = out.tick_ack
          /\ muted_players' = out.muted_players
          /\ tasks' = IF out.command
                      THEN send_chats_to_self(tasks, n_client_in + 1,
                                              info.slot_player_id, out.messages)
                      ELSE tasks
          /\ Propagate(out.ret, "send_w3gs")
          /\ last' = [Last("w3gs_stream", "pkt", pkt, NoTag, <<>>, out.node_ops,
                           out.messages) EXCEPT !.decoded = out.decoded]
          /\ n_keepalive_in' =
               IF pkt.type = OutgoingKeepAliveId THEN n_keepalive_in + 1
               ELSE n_keepalive_in
  /\ n_client_in' = n_client_in + 1
  /\ UNCHANGED <<listener_vars, reply_log, info, senders, tick_recv, w3gs_chan,
                 n_node_in, n_action_in, fwd_to_node, fwd_to_client>>

\* node_stream.send_w3gs(pkt).await completes: handle_game_packet returns
SendW3gsDone ==
  /\ pc = "send_w3gs"
  /\ \E node_res \in Outcomes("Err(NodeSend)") :
       LET out == node_stream_send_w3gs(last.pkt, node_res)
       IN /\ Propagate(out.ret, "send_w3gs")
          /\ fwd_to_node' = fwd_to_node \o Forwarded(out.node_ops, n_client_in)
          /\ last' = [last EXCEPT !.node_ops = out.node_ops]
  /\ UNCHANGED <<listener_vars, reply_log, info, senders, tick_recv, tick_ack,
                 muted_players, w3gs_chan, tasks, n_client_in, n_node_in,
                 n_keepalive_in, n_action_in, fwd_to_client>>

(***************************************************************************)
(* run(): the select! arm of status_rx.recv()                              *)
(***************************************************************************)
\* recv() is a value: handle_game_status_change only logs
RunStatus ==
  /\ pc = "running"
  /\ \E v \in StatusValues :
       last' = Last("status_rx", "some", NoPkt, NoTag, <<>>, <<>>, <<>>)
  /\ UNCHANGED <<listener_vars, reply_log, info, senders, pc, result, tick_recv, tick_ack, muted_players, w3gs_chan, tasks,
                 n_client_in, n_node_in, n_keepalive_in, n_action_in, fwd_to_node,
                 fwd_to_client>>

\* recv() is None: the status sender was dropped
RunStatusClosed ==
  /\ pc = "running"
  /\ Return(TaskCancelled)
  /\ last' = Last("status_rx", "closed", NoPkt, NoTag, <<>>, <<>>, <<>>)
  /\ UNCHANGED <<listener_vars, reply_log, info, senders, tick_recv, tick_ack, muted_players, w3gs_chan, tasks,
                 n_client_in, n_node_in, n_keepalive_in, n_action_in, fwd_to_node,
                 fwd_to_client>>

(***************************************************************************)
(* run(): the select! arm of w3gs_rx.recv()                                *)
(***************************************************************************)
\* a receive that hands out the newest queued frame
w3gs_rx_recv_newest(chan) ==
  [entry |-> chan[Len(chan)], rest |-> SubSeq(chan, 1, Len(chan) - 1)]

\* w3gs_rx.recv() on a channel that holds frames: the oldest one leaves it
w3gs_rx_recv(chan) == [entry |-> Head(chan), rest |-> Tail(chan)]

\* recv() is a frame: handle_incoming_w3gs runs up to its await of the write,
\* or to its return when the frame is withheld or does not decode
RunW3gsPkt ==
  /\ pc = "running"
  /\ w3gs_chan # <<>>
  /\ \E decode_err \in DecodeFailures(w3gs_rx_recv(w3gs_chan).entry.pkt) :
       LET e == w3gs_rx_recv(w3gs_chan).entry
           out == handle_incoming_w3gs(muted_players, tick_recv, e.pkt, decode_err)
       IN /\ tick_recv' = out.tick_recv
          /\ Propagate(out.ret, "send")
          /\ last' = [Last("w3gs_rx", "pkt", e.pkt, e.tag, out.w3gs_ops, <<>>, <<>>)
                         EXCEPT !.decoded = out.decoded]
          /\ n_action_in' =
               IF e.pkt.type = IncomingActionId THEN n_action_in + 1
               ELSE n_action_in
  /\ w3gs_chan' = w3gs_rx_recv(w3gs_chan).rest
  /\ UNCHANGED <<listener_vars, reply_log, info, senders, tick_ack, muted_players,
                 tasks, n_client_in, n_node_in, n_keepalive_in, fwd_to_node,
                 fwd_to_client>>

\* w3gs_stream.send(pkt).await completes: handle_incoming_w3gs returns
SendDone ==
  /\ pc = "send"
  /\ \E send_res \in Outcomes("Err(W3gsSend)") :
       LET out == w3gs_stream_send(last.pkt, send_res)
       IN /\ Propagate(out.ret, "send")
          /\ fwd_to_client' =
               IF last.tag.origin = "node"
               THEN fwd_to_client \o Forwarded(out.w3gs_ops, last.tag.idx)
               ELSE fwd_to_client
          /\ reply_log' =
               IF last.tag.origin = "reply"
               THEN reply_log \o Forwarded(out.w3gs_ops, last.tag)
               ELSE reply_log
          /\ last' = [last EXCEPT !.w3gs_ops = out.w3gs_ops]
  /\ UNCHANGED <<listener_vars, info, senders, tick_recv, tick_ack, muted_players,
                 w3gs_chan, tasks, n_client_in, n_node_in, n_keepalive_in,
                 n_action_in, fwd_to_node>>

\* recv() is None: the channel is drained and no Sender of it is left (never
\* the case while w3gs_tx, which run() borrows, is one of them)
RunW3gsClosed ==
  /\ pc = "running"
  /\ w3gs_chan = <<>>
  /\ senders = {}
  /\ Return(TaskCancelled)
  /\ last' = Last("w3gs_rx", "closed", NoPkt, NoTag, <<>>, <<>>, <<>>)
  /\ UNCHANGED <<listener_vars, reply_log, info, senders, tick_recv, tick_ack, muted_players, w3gs_chan, tasks,
                 n_client_in, n_node_in, n_keepalive_in, n_action_in, fwd_to_node,
                 fwd_to_client>>

(***************************************************************************)
(* The environment of run(): the node side and the detached reply tasks.   *)
(***************************************************************************)
\* the node side sends a frame into the channel
NodeSend ==
  /\ "node" \in senders
  /\ n_client_in + n_node_in < MaxFrames
  /\ Len(w3gs_chan) < ChanCap
  /\ \E pkt \in NodePkts :
       w3gs_chan' = Append(w3gs_chan, [pkt |-> pkt, tag |-> NodeTag(n_node_in + 1)])
  /\ n_node_in' = n_node_in + 1
  /\ UNCHANGED <<listener_vars, reply_log, info, senders, pc, result, tick_recv, tick_ack, muted_players, tasks, last,
                 n_client_in, n_keepalive_in, n_action_in, fwd_to_node, fwd_to_client>>

\* the node side drops its Sender
NodeClose ==
  /\ "node" \in senders
  /\ senders' = senders \ {"node"}
  /\ UNCHANGED <<listener_vars, reply_log, info, pc, result, tick_recv, tick_ack,
                 muted_players, w3gs_chan, tasks, last, n_client_in, n_node_in,
                 n_keepalive_in, n_action_in, fwd_to_node, fwd_to_client>>

\* the tasks without task i when it has no message left, else with it advanced
Advance(ts, i) ==
  IF Len(ts[i].messages) = 1
  THEN SubSeq(ts, 1, i - 1) \o SubSeq(ts, i + 1, Len(ts))
  ELSE [ts EXCEPT ![i].messages = Tail(@), ![i].sent = @ + 1]

\* one turn of the loop of a detached task: encode the next message and send it
\* on the clone of w3gs_tx: into the channel behind w3gs_rx when w3gs_tx is a
\* Sender of it, else into the other channel, which run() never reads
TaskSend ==
  \E i \in 1..Len(tasks) :
    /\ IF "handler" \in senders
       THEN /\ Len(w3gs_chan) < ChanCap
            /\ w3gs_chan' =
                 Append(w3gs_chan,
                        [pkt |-> private_to_self(tasks[i].player_id,
                                                 Head(tasks[i].messages)),
                         tag |-> ReplyTag(tasks[i].cmd, tasks[i].sent + 1)])
       ELSE UNCHANGED w3gs_chan
    /\ tasks' = Advance(tasks, i)
    /\ UNCHANGED <<listener_vars, reply_log, info, senders, pc, result, tick_recv, tick_ack, muted_players, last,
                   n_client_in, n_node_in, n_keepalive_in, n_action_in, fwd_to_node,
                   fwd_to_client>>

\* one turn of the loop of a detached task: the message fails to encode, it is
\* logged and dropped
TaskEncodeError ==
  \E i \in 1..Len(tasks) :
    /\ tasks' = Advance(tasks, i)
    /\ UNCHANGED <<listener_vars, reply_log, info, senders, pc, result, tick_recv, tick_ack, muted_players, w3gs_chan, last,
                   n_client_in, n_node_in, n_keepalive_in, n_action_in, fwd_to_node,
                   fwd_to_client>>

RunClientPkt == ClientPktFrom(ClientPkts)

Next ==
  \/ RunClientError
  \/ RunClientClosed
  \/ RunClientLeaveAck
  \/ LeaveReport
  \/ LeaveSend
  \/ LeaveFlush
  \/ RunClientPkt
  \/ SendW3gsDone
  \/ RunStatus
  \/ RunStatusClosed
  \/ RunW3gsPkt
  \/ SendDone
  \/ NodeSend
  \/ TaskSend
  \/ TaskEncodeError

\* The session as its caller wires it for the replies to arrive: w3gs_tx is a
\* Sender of the channel behind w3gs_rx, so that channel never reports closed
\* while run() lives.  The node side dropping its Sender then only ends
\* NodeSend and is left out.
Spec == Init /\ [][Next]_vars

(***************************************************************************)
(* The session with w3gs_tx on another channel: the node side holds the    *)
(* only Sender of the channel behind w3gs_rx, and when it drops it run()   *)
(* sees the channel closed once it is drained.                             *)
(***************************************************************************)
SplitPkts ==
  {Pkt(OutgoingKeepAliveId), BadChatPkt(ChatToHostId),
   ChatPkt(ChatToHostId, TRUE, 1, <<"!", "m", "u", "t", "e", "a", "l", "l">>)}

RunSplitClientPkt == ClientPktFrom(SplitPkts)

NextSplit ==
  \/ RunClientError
  \/ RunClientClosed
  \/ RunClientLeaveAck
  \/ LeaveReport
  \/ LeaveSend
  \/ LeaveFlush
  \/ RunSplitClientPkt
  \/ SendW3gsDone
  \/ RunStatus
  \/ RunStatusClosed
  \/ RunW3gsPkt
  \/ SendDone
  \/ RunW3gsClosed
  \/ NodeSend
  \/ NodeClose
  \/ TaskSend
  \/ TaskEncodeError

SpecSplit == InitSplit /\ [][NextSplit]_vars

(***************************************************************************)
(* The command interpreter on its own: the local player types commands,    *)
(* the node side is silent and the detached reply tasks have not run yet.  *)
(***************************************************************************)
RunClientCommand == ClientPktFrom(CommandPkts)

NextCmd == RunClientCommand \/ SendW3gsDone

SpecCmd == Init /\ [][NextCmd]_vars

(***************************************************************************)
(* The delivery of private replies: the local player types commands, the   *)
(* detached tasks put the replies on the channel and run() takes them off, *)
(* in every interleaving; the node side is silent.                         *)
(***************************************************************************)
\* commands with one reply and with several, one of them "mute 1" of the local
\* player's own slot id
ReplyTexts ==
  { <<"!", "m", "u", "t", "e">>,
    <<"!", "m", "u", "t", "e", " ", "1">>,
    <<"!", "u", "n", "m", "u", "t", "e", "a", "l", "l">> }
ReplyPkts == {ChatPkt(ChatToHostId, TRUE, 1, t) : t \in ReplyTexts}

RunReplyCommand == n_client_in < MaxCommands /\ ClientPktFrom(ReplyPkts)

NextReply ==
  \/ RunReplyCommand
  \/ TaskSend
  \/ TaskEncodeError
  \/ RunW3gsPkt
  \/ SendDone

SpecReply == Init /\ [][NextReply]_vars

(***************************************************************************)
(* The accept stream on its own: the operating system queues connections   *)
(* and accept errors, the caller polls the stream.                         *)
(***************************************************************************)
\* a connection or an accept error arrives at the listening socket
Connect ==
  /\ n_accepts < MaxAccepts
  /\ \E ev \in AcceptEvents : accept_queue' = Append(accept_queue, ev)
  /\ n_accepts' = n_accepts + 1
  /\ UNCHANGED <<session_vars, poll_result, yielded>>

\* the caller calls the public poll_accept itself: the entry it takes is not an
\* item of the stream
PollAccept ==
  /\ poll_result' = [call |-> "poll_accept", ret |-> poll_accept(accept_queue)]
  /\ accept_queue' = IF accept_queue = <<>> THEN accept_queue ELSE Tail(accept_queue)
  /\ UNCHANGED <<session_vars, yielded, n_accepts>>

\* the caller polls the stream once
PollNext ==
  /\ poll_result' = [call |-> "poll_next", ret |-> poll_next(accept_queue)]
  /\ yielded' = IF poll_next(accept_queue).poll = "Ready"
                THEN Append(yielded, [item |-> poll_next(accept_queue).item,
                                      stream |-> poll_next(accept_queue).stream])
                ELSE yielded
  /\ accept_queue' = IF accept_queue = <<>> THEN accept_queue ELSE Tail(accept_queue)
  /\ UNCHANGED <<session_vars, n_accepts>>

NextListener == Connect \/ PollNext \/ PollAccept

SpecListener == Init /\ [][NextListener]_vars

(***************************************************************************)
(* Properties.  "Sent", "written" and "forwarded" are read off the I/O     *)
(* calls of an iteration (last.w3gs_ops, last.node_ops): a frame is        *)
(* forwarded when the handler hands it to send / send_w3gs, whether or not *)
(* the transport then reports an error.                                    *)
(***************************************************************************)
ClientStep == last.src = "w3gs_stream" /\ last.event = "pkt"
ChanStep == last.src = "w3gs_rx" /\ last.event = "pkt"
LeaveAckStep == ClientStep /\ last.pkt.type = LeaveAckId

OpsOf(ops, name) == SelectSeq(ops, LAMBDA o : o.op = name)

\* what run() owns: nothing of it may change once run() has returned
SessionState ==
  <<pc, result, tick_recv, tick_ack, muted_players, last, n_client_in, n_keepalive_in,
    n_action_in, fwd_to_node, fwd_to_client, reply_log>>

\* what processing a frame changes
Processed ==
  <<tick_recv, tick_ack, muted_players, n_client_in, n_keepalive_in, n_action_in,
    fwd_to_node, fwd_to_client, reply_log>>

\* run() is inside the LeaveAck arm or has returned
LeavingOrDone == pc \in {"leave_report", "leave_send", "leave_flush", "done"}

C1_Handshake ==
  /\ (LeaveAckStep /\ pc = "done") =>
       /\ last.node_ops = OpsOf(last.node_ops, "report_slot_status")
       /\ Len(last.node_ops) = 1
       /\ last.node_ops[1].status = "Left"
       /\ Len(OpsOf(last.w3gs_ops, "send")) = 1
       /\ OpsOf(last.w3gs_ops, "send")[1].pkt = Pkt(LeaveAckId)
  /\ ~LeaveAckStep => OpsOf(last.node_ops, "report_slot_status") = <<>>

\* C1: the first LeaveAck frame read from the local client makes run() call
\* report_slot_status(Left) exactly once and write exactly one LeaveAck frame
\* back before it returns; from the moment the LeaveAck frame is read no frame
\* of any source is processed: nothing is forwarded, no counter and no mute set
\* changes, whatever the node side and the reply tasks still put on the
\* channel, and nothing at all changes once run() has returned.
C1_LeaveAckEndsSession ==
  /\ [] C1_Handshake
  /\ [][LeavingOrDone => UNCHANGED Processed]_vars
  /\ [][pc = "done" => UNCHANGED SessionState]_vars

\* C2: run() ends only with Ok(Disconnected), Ok(Leave) or Err(TaskCancelled),
\* also when a forward fails or a chat frame fails to decode.
C2_OnlyThreeOutcomes ==
  pc = "done" => result \in {"Ok(Disconnected)", "Ok(Leave)", "Err(TaskCancelled)"}

\* an I/O failure of the local-client transport in the latest iteration: the
\* stream closed, recv() failed, or the write of a forwarded frame failed
ClientIoFailure ==
  \/ last.src = "w3gs_stream" /\ last.event \in {"err", "closed"}
  \/ /\ ChanStep
     /\ \E i \in 1..Len(last.w3gs_ops) : last.w3gs_ops[i].done /\ ~last.w3gs_ops[i].ok

\* C3: every I/O failure of the local-client transport (closed, receive error,
\* error while writing a forwarded frame) ends run() with Ok(Disconnected).
C3_ClientIoFailureDisconnects ==
  ClientIoFailure => pc = "done" /\ result = "Ok(Disconnected)"

\* the latest iteration saw status_rx or w3gs_rx closed
ChannelClosed == last.event = "closed" /\ last.src \in {"status_rx", "w3gs_rx"}

\* C4: when status_rx.recv() or w3gs_rx.recv() reports its channel closed, run()
\* returns Err(TaskCancelled), never Disconnected or Leave; and run() returns
\* Err(TaskCancelled) in no other situation.
C4_TaskCancelled ==
  pc = "done" => (result = TaskCancelled <=> ChannelClosed)

\* C5: tick_ack is the number of OutgoingKeepAlive frames read from the local
\* client and tick_recv the number of IncomingAction frames taken from the
\* channel; nothing else (other frame types, commands, status updates) moves
\* either counter.
C5_TickCounters ==
  /\ tick_ack = n_keepalive_in
  /\ tick_recv = n_action_in

C5_Witness ==
  /\ tick_ack = 1
  /\ tick_recv = 1
  /\ muted_players # {}

StrictlyIncreasing(q) == \A i \in 1..(Len(q) - 1) : q[i] < q[i + 1]

\* C6: frames of one source are forwarded in arrival order under every
\* interleaving: the node frames written to the local client, and the client
\* frames sent to the node, each appear in the order in which they arrived.
C6_ArrivalOrder ==
  /\ StrictlyIncreasing(fwd_to_client)
  /\ StrictlyIncreasing(fwd_to_node)
  /\ \A i \in 1..Len(fwd_to_client) : fwd_to_client[i] \in 1..n_node_in
  /\ \A i \in 1..Len(fwd_to_node) : fwd_to_node[i] \in 1..n_client_in

C6_Witness ==
  /\ fwd_to_client = <<1, 2>>
  /\ fwd_to_node = <<1>>

\* the frame is written to the local client / sent to the node exactly once,
\* unchanged
WrittenOnce(ops, op, pkt) ==
  /\ Len(ops) = 1
  /\ ops[1].op = op
  /\ ops[1].pkt = pkt

\* the frame is ChatFromHost carrying scoped chat of a muted player
MutedScopedChat(pkt) ==
  /\ pkt.type = ChatFromHostId
  /\ pkt.chat.ok
  /\ pkt.chat.scoped
  /\ pkt.chat.from \in muted_players

\* C7: a frame taken from the channel is withheld from the local client iff it
\* is ChatFromHost carrying scoped chat of a player who is in muted_players when
\* the frame is processed; every other frame is forwarded unchanged, once.
C7_WithheldIffMuted ==
  ChanStep =>
    IF MutedScopedChat(last.pkt) THEN last.w3gs_ops = <<>>
    ELSE WrittenOnce(last.w3gs_ops, "send", last.pkt)

\* the frame is ChatToHost carrying scoped text that parses as a command
IsCommandPkt(pkt) ==
  /\ pkt.type = ChatToHostId
  /\ pkt.chat.ok
  /\ pkt.chat.scoped
  /\ parse_chat_command(pkt.chat.text) # NoCommand

\* C8: every frame other than LeaveAck read from the local client is either
\* sent unchanged to the node, once, or consumed as a chat command, never both
\* and never neither: scoped ChatToHost text that parses as a command is
\* executed and not forwarded, every other frame is forwarded.
C8_ForwardOrConsume ==
  (ClientStep /\ last.pkt.type # LeaveAckId) =>
    IF IsCommandPkt(last.pkt)
    THEN last.messages # <<>> /\ last.node_ops = <<>>
    ELSE last.messages = <<>> /\ WrittenOnce(last.node_ops, "send_w3gs", last.pkt)

\* the keywords handle_chat_command matches exactly
Keywords ==
  { <<"h", "e", "l", "p">>,
    <<"f", "l", "o">>,
    <<"t", "i", "c", "k">>,
    <<"m", "u", "t", "e", "a", "l", "l">>,
    <<"u", "n", "m", "u", "t", "e", "a", "l", "l">>,
    <<"m", "u", "t", "e">>,
    <<"u", "n", "m", "u", "t", "e">> }

\* the command the interpreter matches on: the text after the prefix, trimmed
CommandOf(pkt) == TrimEnd(parse_chat_command(pkt.chat.text))

\* "mute <id>" or "unmute <id>", whatever follows the blank
ArgumentForm(cmd) ==
  \/ StartsWith(cmd, <<"m", "u", "t", "e", " ">>)
  \/ StartsWith(cmd, <<"u", "n", "m", "u", "t", "e", " ">>)

\* the latest iteration read scoped chat from the local client
ScopedChatStep(l) ==
  /\ l.src = "w3gs_stream"
  /\ l.event = "pkt"
  /\ l.pkt.type = ChatToHostId
  /\ l.pkt.chat.ok
  /\ l.pkt.chat.scoped

\* the latest iteration executed the command cmd
CommandStep(l, cmd) == ScopedChatStep(l) /\ IsCommandPkt(l.pkt) /\ CommandOf(l.pkt) = cmd

\* this step of run() read a frame from the local client
ReadsClientFrame == n_client_in' = n_client_in + 1

\* one reply "Unknown command", mute set untouched, nothing sent to the node
AnsweredUnknown ==
  /\ last'.messages = <<"Unknown command">>
  /\ muted_players' = muted_players
  /\ last'.node_ops = <<>>

\* C9 as stated: command text of the local player that is none of help, flo,
\* tick, muteall, unmuteall, mute, mute <id>, unmute, unmute <id> yields exactly
\* the reply "Unknown command", leaves muted_players unchanged and is not
\* forwarded, also when it merely begins with "mute" or "unmute".
C9_UnknownCommand ==
  [][(ReadsClientFrame /\ ScopedChatStep(last') /\ IsCommandPkt(last'.pkt)
      /\ CommandOf(last'.pkt) \notin Keywords
      /\ ~ArgumentForm(CommandOf(last'.pkt)))
     => AnsweredUnknown]_vars

\* C9 amended: command text of the local player that is none of the exact
\* keywords and begins with neither "mute" nor "unmute" yields exactly the reply
\* "Unknown command", leaves muted_players unchanged and is not forwarded.
C9_UnknownCommandAmended ==
  [][(ReadsClientFrame /\ ScopedChatStep(last') /\ IsCommandPkt(last'.pkt)
      /\ CommandOf(last'.pkt) \notin Keywords
      /\ ~StartsWith(CommandOf(last'.pkt), <<"m", "u", "t", "e">>)
      /\ ~StartsWith(CommandOf(last'.pkt), <<"u", "n", "m", "u", "t", "e">>))
     => AnsweredUnknown]_vars

C9_Witness ==
  /\ ScopedChatStep(last)
  /\ last.pkt.chat.text = <<"!", "f", "o", "o">>
  /\ last.messages = <<"Unknown command">>
  /\ last.node_ops = <<>>
  /\ muted_players # {}

\* C10: from any reachable mute set a muteall that follows a muteall leaves the
\* mute set as the first one left it, and unmuteall always leaves it empty.
C10_MuteAllIdempotent ==
  [][ReadsClientFrame =>
       /\ (CommandStep(last, <<"m", "u", "t", "e", "a", "l", "l">>) /\ CommandStep(last', <<"m", "u", "t", "e", "a", "l", "l">>))
            => muted_players' = muted_players
       /\ CommandStep(last', <<"u", "n", "m", "u", "t", "e", "a", "l", "l">>) => muted_players' = {}]_vars

C10_Witness ==
  /\ info = Info3
  /\ Len(tasks) = 3
  /\ tasks[1].messages = <<"Muted: P2">>
  /\ tasks[2].messages = <<"All players muted.">>
  /\ tasks[3].messages = <<"All players muted.">>
  /\ muted_players = {2, 3}

(***************************************************************************)
(* The mute and unmute arms.                                               *)
(***************************************************************************)
\* the other players the roster lists, in roster order
Opponents ==
  SelectSeq(info.player_infos, LAMBDA p : p.slot_player_id # info.slot_player_id)

\* the other players the roster lists that are not muted, in roster order
UnmutedOpponents ==
  SelectSeq(info.player_infos,
            LAMBDA p : p.slot_player_id # info.slot_player_id
                       /\ p.slot_player_id \notin muted_players)

\* this step of run() executed the command "mute" without an argument
MuteNoArgStep == ReadsClientFrame /\ CommandStep(last', <<"m", "u", "t", "e">>)

\* the sole candidate joins the mute set and is named in the one reply
MutesDirectly ==
  /\ muted_players' = muted_players \cup {UnmutedOpponents[1].slot_player_id}
  /\ last'.messages = <<"Muted: " \o UnmutedOpponents[1].name>>

\* the candidates are listed after a header and nobody is muted
ListsCandidates ==
  /\ muted_players' = muted_players
  /\ last'.messages = <<"Type '!mute <ID>' to mute a player:">> \o IdLines(UnmutedOpponents)

\* C11 as stated: "mute" without an argument is tiered by the number of players
\* of the roster, in every reachable mute state: with exactly 2 players the sole
\* opponent is muted and named in the reply, with 3 or more the unmuted
\* opponents are listed and muted_players is unchanged.
C11_TieredByPlayers ==
  [][MuteNoArgStep =>
       IF Len(info.player_infos) = 2
       THEN /\ muted_players' = muted_players \cup {Opponents[1].slot_player_id}
            /\ last'.messages = <<"Muted: " \o Opponents[1].name>>
       ELSE ListsCandidates]_vars

\* C11 amended: "mute" without an argument is tiered by the number of unmuted
\* opponents: none, the one reply "You have silenced all the players." and no
\* change; exactly one, it is muted and named in the reply; two or more, they
\* are listed and muted_players is unchanged.
C11_TieredByCandidates ==
  [][MuteNoArgStep =>
       CASE Len(UnmutedOpponents) = 0 ->
              /\ muted_players' = muted_players
              /\ last'.messages = <<"You have silenced all the players.">>
         [] Len(UnmutedOpponents) = 1 -> MutesDirectly
         [] OTHER -> ListsCandidates]_vars

C11_Witness ==
  /\ info = Info3
  /\ CommandStep(last, <<"m", "u", "t", "e">>)
  /\ last.messages = <<"Muted: P3">>
  /\ muted_players = {2, 3}
  /\ Len(tasks) = 2

\* the argument of "mute <id>" / "unmute <id>" as the arm parses it
MuteArg(l) == ParseU8(SliceFrom(CommandOf(l.pkt), Len(<<"m", "u", "t", "e", " ">>)))
UnmuteArg(l) ==
  ParseU8(SliceFrom(CommandOf(l.pkt), Len(<<"u", "n", "m", "u", "t", "e", " ">>)))

\* the iteration l executed "mute <text>" / "unmute <text>"
MuteArgStep(l) ==
  /\ ScopedChatStep(l)
  /\ IsCommandPkt(l.pkt)
  /\ StartsWith(CommandOf(l.pkt), <<"m", "u", "t", "e", " ">>)
UnmuteArgStep(l) ==
  /\ ScopedChatStep(l)
  /\ IsCommandPkt(l.pkt)
  /\ StartsWith(CommandOf(l.pkt), <<"u", "n", "m", "u", "t", "e", " ">>)

\* the replies that confirm a mute or an unmute
Confirmations ==
  {"Muted: " \o info.player_infos[i].name : i \in 1..Len(info.player_infos)}
    \cup {"Un-muted: " \o info.player_infos[i].name : i \in 1..Len(info.player_infos)}

\* one message that is no confirmation, then one line per candidate
ErrorPlusList(messages, candidates) ==
  /\ messages # <<>>
  /\ messages[1] \notin Confirmations
  /\ Tail(messages) = IdLines(candidates)

\* C12: "mute <id>" adds id to muted_players and replies "Muted: <name of id>"
\* exactly when id is a roster slot id, not the local player's and not already
\* muted; in every other case muted_players is unchanged and the reply is an
\* error followed by the current unmuted-candidate list; nothing is sent to the
\* node in any case.
C12_MuteId ==
  [][(ReadsClientFrame /\ MuteArgStep(last') /\ MuteArg(last') # ParseFail) =>
       LET id == MuteArg(last')
       IN /\ last'.node_ops = <<>>
          /\ IF /\ id \in RosterIds(info)
                /\ id # info.slot_player_id
                /\ id \notin muted_players
             THEN /\ muted_players' = muted_players \cup {id}
                  /\ last'.messages = <<"Muted: " \o FindPlayer(info, id)[1].name>>
             ELSE /\ muted_players' = muted_players
                  /\ ErrorPlusList(last'.messages, UnmutedOpponents)]_vars

\* the muted players the roster lists, by ascending slot id
MutedPlayers ==
  LET ids == SelectSeq(SortedSeq(muted_players), LAMBDA id : FindPlayer(info, id) # <<>>)
  IN [i \in 1..Len(ids) |-> FindPlayer(info, ids[i])[1]]

\* C13: a mute or unmute command whose argument is no number, or a slot id the
\* roster does not list, never ends the session and never changes
\* muted_players, and its reply is a corrective message followed by the current
\* candidate list: the unmuted opponents for mute, the muted players for unmute.
C13_BadArgument ==
  [][ReadsClientFrame =>
       /\ (MuteArgStep(last') /\ MuteArg(last') \notin RosterIds(info)) =>
            /\ pc' = "running"
            /\ muted_players' = muted_players
            /\ ErrorPlusList(last'.messages, UnmutedOpponents)
       /\ (UnmuteArgStep(last') /\ UnmuteArg(last') \notin RosterIds(info)) =>
            /\ pc' = "running"
            /\ muted_players' = muted_players
            /\ ErrorPlusList(last'.messages, MutedPlayers)]_vars

\* this step of run() executed "unmute" without an argument
UnmuteNoArgStep ==
  ReadsClientFrame /\ CommandStep(last', <<"u", "n", "m", "u", "t", "e">>)

\* "unmute <id>" right after a "mute <id>" that added id
UnmuteAfterMute ==
  /\ ReadsClientFrame
  /\ MuteArgStep(last)
  /\ MuteArg(last) # ParseFail
  /\ MuteArg(last) \notin last.muted
  /\ MuteArg(last) \in muted_players
  /\ UnmuteArgStep(last')
  /\ UnmuteArg(last') = MuteArg(last)

\* no-argument unmute tiered over the muted set
UnmuteTiering ==
  CASE Cardinality(muted_players) = 0 ->
         /\ muted_players' = muted_players
         /\ Len(last'.messages) = 1
    [] Cardinality(muted_players) = 1 ->
         /\ muted_players' = {}
         /\ last'.messages = <<"Un-muted: " \o MutedPlayers[1].name>>
    [] OTHER ->
         /\ muted_players' = muted_players
         /\ last'.messages =
              <<"Type '!unmute <ID>' to unmute a player:">> \o IdLines(MutedPlayers)

\* C14: unmute is the inverse of mute: whenever "mute <id>" has added id, an
\* immediately following "unmute <id>" removes it and restores the mute set
\* held before the mute; and "unmute" without an argument is tiered over the
\* muted set: none muted, a reply only; exactly one, it is unmuted; two or
\* more, they are listed and none is unmuted.
C14_UnmuteInverse ==
  [][/\ UnmuteAfterMute => muted_players' = last.muted
     /\ UnmuteNoArgStep => UnmuteTiering]_vars

\* C18: muted_players only ever holds slot ids of the roster other than the
\* local player's own.
C18_MutedAreOpponents ==
  muted_players \subseteq (RosterIds(info) \ {info.slot_player_id})

(***************************************************************************)
(* The leave handshake.                                                    *)
(***************************************************************************)
\* the LeaveAck echo was written and flushed without error
EchoCompleted ==
  /\ Len(last.w3gs_ops) = 2
  /\ last.w3gs_ops[1] = SendOp(Pkt(LeaveAckId), TRUE)
  /\ last.w3gs_ops[2] = FlushOp(TRUE)

\* the Left report was issued / was issued and succeeded
ReportIssued ==
  /\ Len(last.node_ops) = 1
  /\ last.node_ops[1].op = "report_slot_status"
  /\ last.node_ops[1].status = "Left"
ReportCompleted == ReportIssued /\ last.node_ops[1].ok

\* C15 as stated: run() returns Leave only when both steps of the handshake
\* succeeded, the Left report to the node and the LeaveAck echo, sent and
\* flushed; if either fails the result is not Leave.
C15_LeaveAfterBothSucceed ==
  result = "Ok(Leave)" => (LeaveAckStep /\ ReportCompleted /\ EchoCompleted)

\* C15 amended: run() returns Leave only after the Left report has been issued
\* and the LeaveAck echo has been encoded, sent and flushed without error; a
\* failed encoding, send or flush gives that error instead of Leave, a failed
\* report changes nothing.
C15_LeaveAfterEcho ==
  /\ result = "Ok(Leave)" => (LeaveAckStep /\ ReportIssued /\ EchoCompleted)
  /\ (LeaveAckStep /\ EchoCompleted) => result = "Ok(Leave)"
  /\ (LeaveAckStep /\ pc = "done" /\ ~EchoCompleted) =>
       result \in {"Err(Encode)", "Err(W3gsSend)", "Err(W3gsFlush)", TaskCancelled}

C15_Witness ==
  /\ result = "Ok(Leave)"
  /\ ReportIssued
  /\ ~last.node_ops[1].ok
  /\ EchoCompleted
  /\ fwd_to_node # <<>>

(***************************************************************************)
(* Decoding of ChatFromHost frames.                                        *)
(***************************************************************************)
\* C16: while muted_players is empty every ChatFromHost frame taken from the
\* channel is written to the local client, once and unchanged, without a call
\* of decode_simple, so an undecodable payload is forwarded too and gives no
\* decode error (run() goes on unless the write itself fails); a frame taken
\* from the channel is decoded only if it is ChatFromHost and muted_players is
\* not empty.
C16_NoDecodeWhileUnmuted ==
  ChanStep =>
    /\ last.decoded <=> (last.pkt.type = ChatFromHostId /\ last.muted # {})
    /\ (last.pkt.type = ChatFromHostId /\ last.muted = {}) =>
         /\ muted_players = {}
         /\ WrittenOnce(last.w3gs_ops, "send", last.pkt)
         /\ result # "Err(Decode)"
         /\ last.w3gs_ops[1].ok => pc = "running"

C16_Witness ==
  /\ ChanStep
  /\ last.pkt = BadChatPkt(ChatFromHostId)
  /\ ~last.decoded
  /\ muted_players = {}
  /\ last.w3gs_ops = <<SendOp(BadChatPkt(ChatFromHostId), TRUE)>>
  /\ pc = "running"
  /\ n_client_in >= 1

(***************************************************************************)
(* The accept stream.                                                      *)
(***************************************************************************)
\* the item a completed poll yields for the queue entry ev
ItemFor(ev) ==
  IF ev.kind = "err" THEN [item |-> "Some(Err)", stream |-> NoStream]
  ELSE [item |-> "Some(Ok)",
        stream |-> [peer_addr |-> ev.peer_addr, nodelay |-> ev.nodelay_ok,
                    keepalive |-> FALSE, codec |-> "FloFrameCodec"]]

\* poll_next has never returned end-of-stream
NeverEndOfStream ==
  /\ poll_result.call = "poll_next" => poll_result.ret.item # "None"
  /\ \A i \in 1..Len(yielded) : yielded[i].item \in {"Some(Ok)", "Some(Err)"}

\* a poll_next completes exactly when it takes an entry from the queue, and
\* then it yields the one item of that entry, after however many earlier
\* errors and whatever entries direct calls of poll_accept took before
OneItemPerEntry ==
  /\ (accept_queue # <<>> /\ accept_queue' = Tail(accept_queue)
        /\ poll_result'.call = "poll_next") =>
       /\ yielded' = Append(yielded, ItemFor(Head(accept_queue)))
       /\ poll_result'.ret.poll = "Ready"
  /\ yielded' # yielded =>
       /\ accept_queue # <<>>
       /\ accept_queue' = Tail(accept_queue)
       /\ poll_result'.call = "poll_next"

\* C17: poll_next never yields end-of-stream; every completed poll yields
\* exactly one item, a framed transport for a queued connection or one failing
\* item for an accept error; the error does not end the sequence: the polls
\* after it yield the connections queued behind it.
C17_AcceptStreamUnbounded ==
  /\ [] NeverEndOfStream
  /\ [][OneItemPerEntry]_vars

C17_Witness ==
  /\ Len(yielded) = 3
  /\ yielded[1].item = "Some(Ok)"
  /\ yielded[2].item = "Some(Err)"
  /\ yielded[3].item = "Some(Ok)"
  /\ yielded[3].stream.codec = "FloFrameCodec"
  /\ poll_result.call = "poll_next"
  /\ poll_result.ret.item = "Some(Ok)"

(***************************************************************************)
(* The delivery of private replies.                                        *)
(***************************************************************************)
\* the latest iteration took a private reply off the channel
ReplyStep == ChanStep /\ last.tag.origin = "reply"

\* C19: a private reply that was encoded and put on the channel is written to
\* the local client when run() takes it off the channel: the mute filter lets
\* every reply through, whatever muted_players holds at that moment.
C19_RepliesPassFilter ==
  ReplyStep => WrittenOnce(last.w3gs_ops, "send", last.pkt)

\* tag a is produced before tag b: an earlier command, or the same command and
\* an earlier place in its reply list
SameCommand(a, b) == a.idx = b.idx
ProducedBefore(a, b) == a.idx < b.idx \/ (a.idx = b.idx /\ a.msg < b.msg)

\* C20 as stated: the replies written to the local client appear in the order
\* in which they were produced: those of one command in list order, and every
\* reply to an earlier command before any reply to a later command.
C20_RepliesInOrder ==
  \A i, j \in 1..Len(reply_log) :
    i < j => ProducedBefore(reply_log[i], reply_log[j])

\* C20 amended: the replies of one command are written to the local client in
\* list order, each at most once.
C20_RepliesOfOneCommandInOrder ==
  \A i, j \in 1..Len(reply_log) :
    (i < j /\ SameCommand(reply_log[i], reply_log[j])) =>
      ProducedBefore(reply_log[i], reply_log[j])

C20_Witness ==
  /\ info = Info3
  /\ Len(reply_log) = 4
  /\ reply_log[1] = ReplyTag(1, 1)
  /\ reply_log[2] = ReplyTag(2, 1)
  /\ reply_log[3] = ReplyTag(1, 3)
  /\ reply_log[4] = ReplyTag(2, 3)

====
